---- MODULE Spec2Model ----
(***************************************************************************)
(* prrompt: a git post-commit hook that extracts the prompt files of a     *)
(* commit onto a branch of their own.  The model follows the configurable  *)
(* variant of the program (processCommit / analyzeCommit / extractPrompts  *)
(* / cleanup) and a git repository reduced to what the program touches:    *)
(* the active branch, the local branches with their commits, the index,    *)
(* the working tree and the remote.                                        *)
(*                                                                         *)
(* Strings are sequences of characters: prefix tests, slicing, splitting   *)
(* and trimming are computed as the Go code computes them.                 *)
(***************************************************************************)
EXTENDS Integers, Sequences, FiniteSets, TLC

VARIABLES
    config,         \* the repository's configuration store (prrompt.* keys)
    hookInstalled,  \* whether installHook's post-commit hook is in place
    commitDB,       \* commit identifier -> [msg, files] of the commits git knows
    history,        \* local branch name -> sequence of commit identifiers
    head,           \* the active branch
    index,          \* paths staged for the next commit
    worktree,       \* paths present in the working tree
    remote,         \* branches pushed to origin
    stack,          \* call stack of processCommit invocations (hook nesting)
    ops,            \* the git commands issued so far, in order
    start           \* snapshot of the repository when the outermost run began

vars == <<config, hookInstalled, commitDB, history, head, index, worktree,
          remote, stack, ops, start>>

(***************************************************************************)
(* Bounds of the model.                                                    *)
(***************************************************************************)
\* Deepest nesting of hook invocations explored (the outermost run is 1).
MaxDepth == 2

(***************************************************************************)
(* Strings.                                                                *)
(***************************************************************************)
\* strings.HasPrefix
HasPrefix(s, p) == Len(p) <= Len(s) /\ SubSeq(s, 1, Len(p)) = p

IsSpace(c) == c \in {" ", "\n", "\t"}

RECURSIVE TrimLeft(_)
TrimLeft(s) ==
    IF s # "" /\ IsSpace(Head(s)) THEN TrimLeft(Tail(s)) ELSE s

RECURSIVE TrimRight(_)
TrimRight(s) ==
    IF s # "" /\ IsSpace(SubSeq(s, Len(s), Len(s))) THEN TrimRight(SubSeq(s, 1, Len(s) - 1)) ELSE s

\* strings.TrimSpace
TrimSpace(s) == TrimRight(TrimLeft(s))

\* strings.Split(s, sep) for a one-character separator: always at least one
\* entry, empty entries kept.
RECURSIVE SplitFrom(_, _, _, _)
SplitFrom(s, sep, i, cur) ==
    IF i > Len(s) THEN <<cur>>
    ELSE IF SubSeq(s, i, i) = sep THEN <<cur>> \o SplitFrom(s, sep, i + 1, "")
    ELSE SplitFrom(s, sep, i + 1, cur \o SubSeq(s, i, i))

Split(s, sep) == SplitFrom(s, sep, 1, "")

\* What git prints for a list of lines: one per line.
RECURSIVE JoinLines(_)
JoinLines(ls) ==
    IF ls = <<>> THEN ""
    ELSE IF Len(ls) = 1 THEN ls[1]
    ELSE ls[1] \o "\n" \o JoinLines(Tail(ls))

\* The set of elements of a sequence.
Range(s) == {s[i] : i \in 1..Len(s)}

(***************************************************************************)
(* Program constants.                                                      *)
(***************************************************************************)
defaultCommitPrefix == "prompt"

defaultBranchPrefix == "skill-update"

defaultBaseBranch == "main"

defaultPromptPatterns ==
    << ".claude/skills/",
       "prompts/" >>

\* The default of prrompt.branchPrefix as the README documents it.
documentedBranchPrefix == "prompt-update"

\* Length of the short form of a commit identifier (info.SHA[:7]).
ShortLen == 7

(***************************************************************************)
(* runGit: the output of a git command, trimmed, and whether it failed.    *)
(***************************************************************************)
runGit(output, failed) == [out |-> TrimSpace(output), err |-> failed]

\* git config --get <key>: fails when the key is not set.
ConfigGet(key) ==
    IF config[key].set THEN runGit(config[key].val, FALSE) ELSE runGit("", TRUE)

getCommitPrefix ==
    LET r == ConfigGet("commitPrefix") IN
    IF r.err THEN defaultCommitPrefix
    ELSE IF r.out = "" THEN defaultCommitPrefix
    ELSE r.out

getBranchPrefix ==
    LET r == ConfigGet("branchPrefix") IN
    IF r.err THEN defaultBranchPrefix
    ELSE IF r.out = "" THEN defaultBranchPrefix
    ELSE r.out

getBaseBranch ==
    LET r == ConfigGet("baseBranch") IN
    IF r.err THEN defaultBaseBranch
    ELSE IF r.out = "" THEN defaultBaseBranch
    ELSE r.out

\* The loop of getPromptPatterns: trim each entry, keep the non-empty ones.
\* Mutant: the empty entries are kept.
TrimmedAll(parts) == [i \in 1..Len(parts) |-> TrimSpace(parts[i])]

RECURSIVE TrimmedNonEmpty(_)
TrimmedNonEmpty(parts) ==
    IF parts = <<>> THEN <<>>
    ELSE LET p == TrimSpace(Head(parts)) IN
         IF p # "" THEN <<p>> \o TrimmedNonEmpty(Tail(parts))
         ELSE TrimmedNonEmpty(Tail(parts))

\* Mutant: the configured patterns are added to the default ones.
getPromptPatternsWithDefaults ==
    LET r == ConfigGet("promptPatterns") IN
    IF r.err \/ r.out = "" THEN defaultPromptPatterns
    ELSE defaultPromptPatterns \o TrimmedNonEmpty(Split(r.out, ","))

getPromptPatterns ==
    LET r == ConfigGet("promptPatterns") IN
    IF r.err \/ r.out = "" THEN defaultPromptPatterns
    ELSE LET result == TrimmedNonEmpty(Split(r.out, ",")) IN
         IF Len(result) = 0 THEN defaultPromptPatterns ELSE result

isPromptFile(path) ==
    \E i \in 1..Len(getPromptPatterns) : HasPrefix(path, getPromptPatterns[i])

(***************************************************************************)
(* The repository the runs start from.                                     *)
(***************************************************************************)
Main == defaultBaseBranch

Feature == "feat"

Dev == "dev"

\* The commit the hook is run for, and a commit of an earlier extraction.
FullSha == "a1b2c3d4"

PriorSha == "99999999"

\* The identifier git gives the commit made at nesting depth d.
NewSha(d) == SubSeq("123456789", d, d) \o "eeeeeee"

\* Command-line arguments: the full identifier, an abbreviation of it that git
\* resolves, and a string that names no commit.
ArgShas == {FullSha, SubSeq(FullSha, 1, 5), "invalid-sha"}

PathP1 == "prompts/a"

PathP2 == ".claude/skills/b"

PathO1 == "src/m"

PathC1 == "c/x"

\* Changed-path lists of the commit under analysis.
FileLists ==
    { <<PathP1>>, <<PathO1>>, <<PathO1, PathP1>>, <<PathP2, PathC1>>,
      <<PathC1, PathO1, PathP1>> }

\* The lists a repository with the hook installed is run on.
HookFileLists == FileLists \ { <<PathC1, PathO1, PathP1>> }

Messages == { "fix" }

Unset == [set |-> FALSE, val |-> ""]

Val(v) == [set |-> TRUE, val |-> v]

\* Configuration stores: nothing set; every key set (as in Test_CustomConfig);
\* keys set to empty values, with a pattern list of blank entries; keys set
\* to blank values, with an empty pattern list.
Configs ==
    { [commitPrefix |-> Unset, branchPrefix |-> Unset, baseBranch |-> Unset,
       promptPatterns |-> Unset],
      [commitPrefix |-> Val("cp"), branchPrefix |-> Val("cb"),
       baseBranch |-> Val(Dev), promptPatterns |-> Val("c/, q/")],
      [commitPrefix |-> Val(""), branchPrefix |-> Val(""),
       baseBranch |-> Val(""), promptPatterns |-> Val(" , ")],
      [commitPrefix |-> Val(" "), branchPrefix |-> Val(" "),
       baseBranch |-> Val(" "), promptPatterns |-> Val("")] }

\* The stores whose values are all empty or blank: every getter falls back
\* to its default, as under the store with nothing set.
DefaultedConfigs ==
    {c \in Configs : c.commitPrefix.set /\ TrimSpace(c.commitPrefix.val) = ""}

\* Branches a run may start on: ordinary branches, the base branch, and
\* extraction branches under the default and the custom prefix.
StartBranches ==
    { Feature, Main,
      defaultBranchPrefix \o "/t",
      "cb/t" }

\* The paths in the tree of a branch.
TreeOf(b) ==
    UNION { {commitDB[history[b][i]].files[j] : j \in 1..Len(commitDB[history[b][i]].files)}
            : i \in 1..Len(history[b]) }

\* The full identifier a commit-ish resolves to: itself, or the commit it
\* abbreviates (git accepts abbreviations of four characters or more).
Resolves(sha) ==
    \E c \in DOMAIN commitDB : HasPrefix(c, sha) /\ Len(sha) >= 4

Resolve(sha) == CHOOSE c \in DOMAIN commitDB : HasPrefix(c, sha) /\ Len(sha) >= 4

Snapshot ==
    [head |-> head, history |-> history, remote |-> remote,
     index |-> index, worktree |-> worktree]

NoInfo ==
    [SHA |-> "", Message |-> "", PromptFiles |-> <<>>, OtherFiles |-> <<>>,
     IsMixed |-> FALSE, SourceBranch |-> ""]

\* A fresh invocation of processCommit(commitSHA).
NewFrame(commitSHA) ==
    [pc |-> "guard", commitSHA |-> commitSHA, info |-> NoInfo,
     promptBranch |-> "", commitMsg |-> "", i |-> 1,
     pending |-> "none", result |-> "none"]

Init ==
    /\ config \in Configs
    /\ hookInstalled \in BOOLEAN
    /\ \E files \in FileLists, msg \in Messages, prior \in BOOLEAN :
         /\ commitDB = IF prior
                       THEN (FullSha :> [msg |-> msg, files |-> files])
                            @@ (PriorSha :> [msg |-> msg, files |-> <<PathP1>>])
                       ELSE (FullSha :> [msg |-> msg, files |-> files])
         /\ head \in StartBranches
         /\ history =
              LET base == [b \in {Main, Feature, Dev, head} |->
                             IF b = head THEN <<FullSha>> ELSE <<>>]
                  old == getBranchPrefix \o "/" \o SubSeq(FullSha, 1, ShortLen)
              IN IF prior THEN (old :> <<PriorSha>>) @@ base ELSE base
         /\ worktree = {files[j] : j \in 1..Len(files)}
    /\ index = <<>>
    /\ remote = {}
    /\ \E arg \in ArgShas : stack = <<NewFrame(arg)>>
    /\ ops = <<>>
    /\ start = Snapshot
    \* A store of empty or blank values is run for the full identifier, in a
    \* repository with no hook and no earlier extraction.
    /\ config \in DefaultedConfigs =>
         /\ ~hookInstalled
         /\ PriorSha \notin DOMAIN commitDB
         /\ stack[1].commitSHA = FullSha
    \* The commit of three paths, whose extraction unstages two of them, is
    \* run with no hook.
    /\ commitDB[FullSha].files \notin HookFileLists => ~hookInstalled

(***************************************************************************)
(* The running invocation and the record of git commands.                  *)
(***************************************************************************)
Depth == Len(stack)

Top == stack[Len(stack)]

SetTop(f) == [stack EXCEPT ![Len(stack)] = f]

Terminal(f) == f.pc \in {"done", "error", "panic"}

\* A git command: what was run, at which step of which invocation, and
\* whether it succeeded.
Op(cmd, arg, ok) ==
    [cmd |-> cmd, arg |-> arg, ok |-> ok, step |-> Top.pc, depth |-> Depth]

Issue(cmd, arg, ok) == ops' = Append(ops, Op(cmd, arg, ok))

\* processCommit returns nil.
ReturnNil(f) == [f EXCEPT !.pc = "done", !.result = "nil"]

\* processCommit returns an error of the given class.
ReturnError(f, e) == [f EXCEPT !.pc = "error", !.result = e]

\* Every git command either succeeds or fails: each action that runs one
\* takes both outcomes, "failed" being the choice and "ok" its negation.
Repo == <<commitDB, history, head, index, worktree, remote>>

Fixed == <<config, hookInstalled, start>>

(***************************************************************************)
(* processCommit: the entry guard.                                         *)
(***************************************************************************)
\* Mutant: the guard tests the built-in prefix, not the configured one.
OnPromptBranchBuiltIn(r) == ~r.err /\ HasPrefix(r.out, defaultBranchPrefix \o "/")

OnPromptBranch(r) == ~r.err /\ HasPrefix(r.out, getBranchPrefix \o "/")

Guard ==
    /\ Top.pc = "guard"
    /\ \E failed \in BOOLEAN :
         LET ok == ~failed
             r == IF ok THEN runGit(head, FALSE) ELSE runGit("", TRUE)
         IN
         /\ Issue("rev-parse", "", ok)
         /\ stack' = SetTop(IF OnPromptBranch(r) THEN ReturnNil(Top)
                            ELSE [Top EXCEPT !.pc = "log",
                                             !.info = [NoInfo EXCEPT !.SHA = Top.commitSHA]])
    /\ UNCHANGED <<Repo, Fixed>>

(***************************************************************************)
(* analyzeCommit.                                                          *)
(***************************************************************************)
\* The classification loop over the lines of the diff-tree output.
RECURSIVE Classify(_, _)
Classify(lines, acc) ==
    IF lines = <<>> THEN acc
    ELSE LET file == TrimSpace(Head(lines)) IN
         IF file = "" THEN Classify(Tail(lines), acc)
         ELSE IF isPromptFile(file)
              THEN Classify(Tail(lines), [acc EXCEPT !.PromptFiles = Append(@, file)])
              ELSE Classify(Tail(lines), [acc EXCEPT !.OtherFiles = Append(@, file)])

\* info.IsMixed = len(info.OtherFiles) > 0
\* Mutant: the flag is computed from the other list.
SetIsMixedFromPromptFiles(info) == [info EXCEPT !.IsMixed = Len(info.PromptFiles) > 0]

SetIsMixed(info) == [info EXCEPT !.IsMixed = Len(info.OtherFiles) > 0]

\* A failed read ends analyzeCommit; processCommit returns "error analyzing
\* commit: ...".
\* Mutant: the error of a failed read is dropped.
AnalysisErrorDropped(f) == ReturnNil(f)

AnalysisError(f) == ReturnError(f, "analysis")

AnalyzeMessage ==
    /\ Top.pc = "log"
    /\ \E failed \in BOOLEAN :
         LET ok == ~failed IN
         /\ ok => Resolves(Top.info.SHA)
         /\ Issue("log", Top.info.SHA, ok)
         /\ stack' = SetTop(
               IF ok
               THEN [Top EXCEPT !.pc = "revparse",
                                !.info.Message =
                                    runGit(commitDB[Resolve(Top.info.SHA)].msg, FALSE).out]
               ELSE AnalysisError(Top))
    /\ UNCHANGED <<Repo, Fixed>>

AnalyzeBranch ==
    /\ Top.pc = "revparse"
    /\ \E failed \in BOOLEAN :
         LET ok == ~failed IN
         /\ Issue("rev-parse", "", ok)
         /\ stack' = SetTop(
               IF ok
               THEN [Top EXCEPT !.pc = "difftree",
                                !.info.SourceBranch = runGit(head, FALSE).out]
               ELSE AnalysisError(Top))
    /\ UNCHANGED <<Repo, Fixed>>

AnalyzeFiles ==
    /\ Top.pc = "difftree"
    /\ \E failed \in BOOLEAN :
         LET ok == ~failed IN
         /\ ok => Resolves(Top.info.SHA)
         /\ Issue("diff-tree", Top.info.SHA, ok)
         /\ stack' = SetTop(
               IF ok
               THEN LET changedFiles ==
                            runGit(JoinLines(commitDB[Resolve(Top.info.SHA)].files), FALSE).out
                    IN [Top EXCEPT !.pc = "decide",
                                   !.info = SetIsMixed(Classify(Split(changedFiles, "\n"), Top.info))]
               ELSE AnalysisError(Top))
    /\ UNCHANGED <<Repo, Fixed>>

\* Mutant: the test looks at the wrong list.
NoOtherFiles(info) == Len(info.OtherFiles) = 0

NoPromptFiles(info) == Len(info.PromptFiles) = 0

\* processCommit after a successful analysis: stop when there is no prompt file.
Decide ==
    /\ Top.pc = "decide"
    /\ stack' = SetTop(IF NoPromptFiles(Top.info) THEN ReturnNil(Top)
                       ELSE [Top EXCEPT !.pc = "name"])
    /\ UNCHANGED <<Repo, Fixed, ops>>

(***************************************************************************)
(* extractPrompts.                                                         *)
(***************************************************************************)
\* shortSHA := info.SHA[:7] panics on an identifier shorter than 7 characters.
SlicePanics(info) == Len(info.SHA) < ShortLen

\* Mutant: the whole identifier is used.
wholeSHA(info) == info.SHA

shortSHA(info) == SubSeq(info.SHA, 1, ShortLen)

\* Mutant: the branch is named with the built-in prefix, not the configured one.
PromptBranchNameBuiltIn(info) == defaultBranchPrefix \o "/" \o shortSHA(info)

PromptBranchName(info) == getBranchPrefix \o "/" \o shortSHA(info)

NameBranch ==
    /\ Top.pc = "name"
    /\ stack' = SetTop(IF SlicePanics(Top.info)
                       THEN [Top EXCEPT !.pc = "panic", !.result = "panic"]
                       ELSE [Top EXCEPT !.pc = "checkout_b",
                                        !.promptBranch = PromptBranchName(Top.info)])
    /\ UNCHANGED <<Repo, Fixed, ops>>

\* A failed branch creation is returned at once: "failed to create branch".
\* Mutant: it goes through cleanup first.
CreateFailedCleanup(f) == [f EXCEPT !.pc = "abort", !.pending = "create_branch"]

CreateFailed(f) == ReturnError(f, "create_branch")

\* git checkout -b promptBranch baseBranch: refused when the branch exists
\* already or the base does not.
CreateBranch ==
    /\ Top.pc = "checkout_b"
    /\ \E failed \in BOOLEAN :
         LET ok == ~failed IN
         /\ ok => (Top.promptBranch \notin DOMAIN history /\ getBaseBranch \in DOMAIN history)
         /\ Issue("checkout -b", Top.promptBranch, ok)
         /\ IF ok
            THEN /\ history' = (Top.promptBranch :> history[getBaseBranch]) @@ history
                 /\ head' = Top.promptBranch
                 /\ worktree' = TreeOf(getBaseBranch)
                 /\ stack' = SetTop([Top EXCEPT !.pc = "cherry_pick"])
            ELSE /\ stack' = SetTop(CreateFailed(Top))
                 /\ UNCHANGED <<history, head, worktree>>
    /\ UNCHANGED <<commitDB, index, remote, Fixed>>

\* The paths git cherry-pick --no-commit stages: the commit's changes, none
\* when the active branch holds the commit already.
Staged(sha) ==
    IF \E k \in 1..Len(history[head]) : history[head][k] = Resolve(sha)
    THEN <<>>
    ELSE commitDB[Resolve(sha)].files

AfterCherryPick(f) ==
    IF f.info.IsMixed /\ Len(f.info.OtherFiles) > 0
    THEN [f EXCEPT !.pc = "unstage", !.i = 1]
    ELSE [f EXCEPT !.pc = "commit"]

CherryPick ==
    /\ Top.pc = "cherry_pick"
    /\ \E failed \in BOOLEAN :
         LET ok == ~failed IN
         /\ ok => Resolves(Top.info.SHA)
         /\ Issue("cherry-pick", Top.info.SHA, ok)
         /\ IF ok
            THEN /\ index' = Staged(Top.info.SHA)
                 /\ worktree' = worktree \cup Range(Staged(Top.info.SHA))
                 /\ stack' = SetTop(AfterCherryPick(Top))
            ELSE /\ stack' = SetTop([Top EXCEPT !.pc = "abort", !.pending = "cherry_pick"])
                 /\ UNCHANGED <<index, worktree>>
    /\ UNCHANGED <<commitDB, history, head, remote, Fixed>>

\* One round of the loop over info.OtherFiles: git restore --staged file,
\* its error ignored.
Unstaged(idx, file) == SelectSeq(idx, LAMBDA x : x # file)

\* Mutant: the loop ends after its first round.
AfterUnstageBreak(f) == [f EXCEPT !.pc = "commit"]

AfterUnstage(f) ==
    IF f.i < Len(f.info.OtherFiles)
    THEN [f EXCEPT !.i = f.i + 1]
    ELSE [f EXCEPT !.pc = "commit"]

Unstage ==
    /\ Top.pc = "unstage"
    /\ \E failed \in BOOLEAN :
         LET ok == ~failed IN
         /\ Issue("restore --staged", Top.info.OtherFiles[Top.i], ok)
         /\ index' = IF ok THEN Unstaged(index, Top.info.OtherFiles[Top.i]) ELSE index
    /\ stack' = SetTop(AfterUnstage(Top))
    /\ UNCHANGED <<commitDB, history, head, worktree, remote, Fixed>>

\* Mutant: the "Extracted from" suffix is appended to every message.
CommitMsgAlwaysSuffix(info) ==
    "[" \o getCommitPrefix \o "] " \o info.Message \o "\n\n" \o "Extracted from "
    \o info.SourceBranch \o " (" \o shortSHA(info) \o ")"

CommitMsg(info) ==
    LET commitMsg == "[" \o getCommitPrefix \o "] " \o info.Message IN
    IF info.IsMixed
    THEN commitMsg \o "\n\n"
         \o "Extracted from "
         \o info.SourceBranch \o " (" \o shortSHA(info) \o ")"
    ELSE commitMsg

\* The post-commit hook installed by installHook runs processCommit on the
\* new commit before git commit returns.
AfterCommit(f, sha) ==
    IF hookInstalled /\ Depth < MaxDepth
    THEN Append(SetTop([f EXCEPT !.pc = "push"]), NewFrame(sha))
    ELSE SetTop([f EXCEPT !.pc = "push"])

\* git commit -m commitMsg: refused when nothing is staged.
Commit ==
    /\ Top.pc = "commit"
    /\ \E failed \in BOOLEAN :
         LET ok == ~failed IN
         /\ ok => index # <<>>
         /\ Issue("commit", CommitMsg(Top.info), ok)
         /\ IF ok
            THEN /\ commitDB' = (NewSha(Depth) :> [msg |-> CommitMsg(Top.info), files |-> index])
                                @@ commitDB
                 /\ history' = [history EXCEPT ![head] = Append(@, NewSha(Depth))]
                 /\ index' = <<>>
                 /\ stack' = AfterCommit([Top EXCEPT !.commitMsg = CommitMsg(Top.info)],
                                         NewSha(Depth))
            ELSE /\ stack' = SetTop([Top EXCEPT !.pc = "abort", !.pending = "commit",
                                                !.commitMsg = CommitMsg(Top.info)])
                 /\ UNCHANGED <<commitDB, history, index>>
    /\ UNCHANGED <<head, worktree, remote, Fixed>>

\* The hook's process ends; git commit returns to the run that called it.
HookReturn ==
    /\ Depth > 1
    /\ Terminal(Top)
    /\ stack' = SubSeq(stack, 1, Depth - 1)
    /\ UNCHANGED <<Repo, Fixed, ops>>

\* Whether the push failed or not, the run goes on to the switch back.
\* Mutant: a failed push is treated like a failed commit.
AfterPushFatal(f, ok) ==
    IF ok THEN [f EXCEPT !.pc = "checkout_f"]
    ELSE [f EXCEPT !.pc = "abort", !.pending = "push"]

AfterPush(f, ok) == [f EXCEPT !.pc = "checkout_f"]

\* git push origin promptBranch -u: a failure is a warning only.
Push ==
    /\ Top.pc = "push"
    /\ \E failed \in BOOLEAN :
         LET ok == ~failed IN
         /\ Issue("push", Top.promptBranch, ok)
         /\ remote' = IF ok THEN remote \cup {Top.promptBranch} ELSE remote
         /\ stack' = SetTop(AfterPush(Top, ok))
    /\ UNCHANGED <<commitDB, history, head, index, worktree, Fixed>>

\* git checkout -f info.SourceBranch.
ReturnToSource ==
    /\ Top.pc = "checkout_f"
    /\ \E failed \in BOOLEAN :
         LET ok == ~failed IN
         /\ ok => Top.info.SourceBranch \in DOMAIN history
         /\ Issue("checkout -f", Top.info.SourceBranch, ok)
         /\ IF ok
            THEN /\ head' = Top.info.SourceBranch
                 /\ index' = <<>>
                 /\ worktree' = TreeOf(Top.info.SourceBranch)
                 /\ stack' = SetTop([Top EXCEPT !.pc = "pr_url"])
            ELSE /\ stack' = SetTop(ReturnError(Top, "restore"))
                 /\ UNCHANGED <<head, index, worktree>>
    /\ UNCHANGED <<commitDB, history, remote, Fixed>>

\* generatePRURL(promptBranch), which reads remote.origin.url and falls back
\* to a message naming the branch when the read fails, and the closing
\* messages; extractPrompts returns nil.
Finish ==
    /\ Top.pc = "pr_url"
    /\ \E failed \in BOOLEAN :
         LET ok == ~failed IN
         Issue("generatePRURL", Top.promptBranch, ok)
    /\ stack' = SetTop(ReturnNil(Top))
    /\ UNCHANGED <<Repo, Fixed>>

(***************************************************************************)
(* cleanup(originalBranch, skillBranch): three commands, errors ignored.   *)
(***************************************************************************)
CleanupAbort ==
    /\ Top.pc = "abort"
    /\ \E failed \in BOOLEAN :
         LET ok == ~failed IN
         /\ Issue("cherry-pick --abort", "", ok)
         /\ index' = IF ok THEN <<>> ELSE index
         /\ worktree' = IF ok THEN TreeOf(head) ELSE worktree
    /\ stack' = SetTop([Top EXCEPT !.pc = "cleanup_checkout"])
    /\ UNCHANGED <<commitDB, history, head, remote, Fixed>>

\* Whether the switch back failed or not, cleanup goes on to the deletion.
\* Mutant: a failed switch back ends the run with the restore error.
AfterCleanupCheckoutFatal(f, ok) ==
    IF ok THEN [f EXCEPT !.pc = "cleanup_delete"] ELSE ReturnError(f, "restore")

AfterCleanupCheckout(f, ok) == [f EXCEPT !.pc = "cleanup_delete"]

CleanupCheckout ==
    /\ Top.pc = "cleanup_checkout"
    /\ \E failed \in BOOLEAN :
         LET ok == ~failed IN
         /\ ok => Top.info.SourceBranch \in DOMAIN history
         /\ Issue("checkout", Top.info.SourceBranch, ok)
         /\ head' = IF ok THEN Top.info.SourceBranch ELSE head
         /\ worktree' = IF ok THEN TreeOf(Top.info.SourceBranch) \cup Range(index)
                        ELSE worktree
         /\ stack' = SetTop(AfterCleanupCheckout(Top, ok))
    /\ UNCHANGED <<commitDB, history, index, remote, Fixed>>

\* The branches after git branch -D b.
\* Mutant: the branch is kept.
BranchKept(h, b) == h

BranchDeleted(h, b) == [x \in DOMAIN h \ {b} |-> h[x]]

\* git branch -D skillBranch: refused for the branch that is checked out.
CleanupDelete ==
    /\ Top.pc = "cleanup_delete"
    /\ \E failed \in BOOLEAN :
         LET ok == ~failed IN
         /\ ok => (Top.promptBranch \in DOMAIN history /\ head # Top.promptBranch)
         /\ Issue("branch -D", Top.promptBranch, ok)
         /\ history' = IF ok THEN BranchDeleted(history, Top.promptBranch) ELSE history
    /\ stack' = SetTop(ReturnError(Top, Top.pending))
    /\ UNCHANGED <<commitDB, head, index, worktree, remote, Fixed>>

(***************************************************************************)
(* The specification.                                                      *)
(***************************************************************************)
Next ==
    \/ Guard
    \/ AnalyzeMessage
    \/ AnalyzeBranch
    \/ AnalyzeFiles
    \/ Decide
    \/ NameBranch
    \/ CreateBranch
    \/ CherryPick
    \/ Unstage
    \/ Commit
    \/ HookReturn
    \/ Push
    \/ ReturnToSource
    \/ Finish
    \/ CleanupAbort
    \/ CleanupCheckout
    \/ CleanupDelete

Spec == Init /\ [][Next]_vars

(***************************************************************************)
(* Analysis of arbitrary changed-path lists: processCommit up to its       *)
(* decision, for commits whose paths may carry surrounding spaces (git     *)
(* prints such names as they are) and for an empty diff-tree output.       *)
(***************************************************************************)
\* Longest changed-path list.
MaxPaths == 3

\* Lines git diff-tree may print: paths under and outside the patterns, a
\* path with a leading and one with a trailing space, and an empty line.
Entries ==
    { PathP1, PathP2, PathO1, PathC1, " " \o PathP1, PathO1 \o " ", "" }

\* git lists a path once.
PathLists ==
    UNION { { s \in [1..n -> Entries] : \A i, j \in 1..n : i # j => s[i] # s[j] }
            : n \in 0..MaxPaths }

\* Values of prrompt.promptPatterns with empty entries between, before and
\* after the patterns, in an order that is not alphabetical.
PatternValues == { "q/,, c/", ",c/ ,", "," }

AnalysisConfigs ==
    Configs \cup
    { [commitPrefix |-> Unset, branchPrefix |-> Unset, baseBranch |-> Unset,
       promptPatterns |-> Val(v)] : v \in PatternValues }

AnalysisInit ==
    /\ config \in AnalysisConfigs
    /\ hookInstalled = FALSE
    /\ \E files \in PathLists :
         /\ commitDB = (FullSha :> [msg |-> "fix", files |-> files])
         /\ worktree = Range(files) \ {""}
    /\ head = Feature
    /\ history = [b \in {Main, Feature, Dev} |-> IF b = Feature THEN <<FullSha>> ELSE <<>>]
    /\ index = <<>>
    /\ remote = {}
    /\ stack = <<NewFrame(FullSha)>>
    /\ ops = <<>>
    /\ start = Snapshot

AnalysisNext ==
    \/ Guard
    \/ AnalyzeMessage
    \/ AnalyzeBranch
    \/ AnalyzeFiles
    \/ Decide

AnalysisSpec == AnalysisInit /\ [][AnalysisNext]_vars

(***************************************************************************)
(* The earlier variants of the program (src/prrompt.go, part_000): in the   *)
(* loop over info.OtherFiles each file is unstaged and then restored in    *)
(* the working tree.  Their prefixes, base branch and patterns are the     *)
(* constants that are the defaults here, so the configuration is unset.    *)
(***************************************************************************)
\* git restore --staged file, its error ignored; git restore file follows.
UnstageThenRestore ==
    /\ Top.pc = "unstage"
    /\ \E failed \in BOOLEAN :
         LET ok == ~failed IN
         /\ Issue("restore --staged", Top.info.OtherFiles[Top.i], ok)
         /\ index' = IF ok THEN Unstaged(index, Top.info.OtherFiles[Top.i]) ELSE index
    /\ stack' = SetTop([Top EXCEPT !.pc = "restore_worktree"])
    /\ UNCHANGED <<commitDB, history, head, worktree, remote, Fixed>>

\* git restore file, its error ignored: the content of the file is taken
\* from the index; refused for a path git does not know.  The path stays
\* in the working tree either way.
RestoreWorktree ==
    /\ Top.pc = "restore_worktree"
    /\ \E failed \in BOOLEAN :
         LET ok == ~failed IN
         /\ ok => Top.info.OtherFiles[Top.i] \in TreeOf(head) \cup Range(index)
         /\ Issue("restore", Top.info.OtherFiles[Top.i], ok)
    /\ stack' = SetTop(AfterUnstage([Top EXCEPT !.pc = "unstage"]))
    /\ UNCHANGED <<Repo, Fixed>>

VariantInit ==
    /\ Init
    /\ config = [commitPrefix |-> Unset, branchPrefix |-> Unset, baseBranch |-> Unset,
                 promptPatterns |-> Unset]

VariantNext ==
    \/ Guard
    \/ AnalyzeMessage
    \/ AnalyzeBranch
    \/ AnalyzeFiles
    \/ Decide
    \/ NameBranch
    \/ CreateBranch
    \/ CherryPick
    \/ UnstageThenRestore
    \/ RestoreWorktree
    \/ Commit
    \/ HookReturn
    \/ Push
    \/ ReturnToSource
    \/ Finish
    \/ CleanupAbort
    \/ CleanupCheckout
    \/ CleanupDelete

VariantSpec == VariantInit /\ [][VariantNext]_vars

(***************************************************************************)
(* Vocabulary of the properties.                                           *)
(***************************************************************************)
\* The outermost invocation: the run the user (or the hook) started.
Outer == stack[1]

\* The outermost run has returned.
RunEnded == Depth = 1 /\ Terminal(Outer)

AnalysisSteps == {"log", "revparse", "difftree"}

MutatingCmds ==
    {"checkout -b", "cherry-pick", "restore --staged", "commit", "push",
     "checkout -f", "cherry-pick --abort", "checkout", "branch -D"}

CleanupCmds == {"cherry-pick --abort", "checkout", "branch -D"}

\* The outermost run issued cmd and it succeeded.
Succeeded(cmd) ==
    \E k \in 1..Len(ops) : ops[k].depth = 1 /\ ops[k].cmd = cmd /\ ops[k].ok

\* The outermost run issued cmd and it failed.
Failed(cmd) ==
    \E k \in 1..Len(ops) : ops[k].depth = 1 /\ ops[k].cmd = cmd /\ ~ops[k].ok

\* The run ended in success, or was aborted: cherry-pick or commit failed and
\* cleanup ran.
EndedSuccessfully == RunEnded /\ Outer.pc = "done"

EndedAborted == RunEnded /\ Outer.pc = "error" /\ Outer.result \in {"cherry_pick", "commit"}

(***************************************************************************)
(* C1.  Round trip: when a run ends successfully or aborted, whatever git  *)
(* commands failed, the active branch is the one the run began on.         *)
(* The code does not keep it: cleanup ignores a failed switch back.        *)
(***************************************************************************)
C1_RoundTrip == (EndedSuccessfully \/ EndedAborted) => head = start.head

(***************************************************************************)
(* C2.  No partial branch: when a run ends, the extraction branch it       *)
(* created exists only if the extraction commit succeeded.                 *)
(* The code does not keep it: cleanup ignores a failed branch deletion.    *)
(***************************************************************************)
C2_NoPartialBranch ==
    (RunEnded /\ Succeeded("checkout -b") /\ Outer.promptBranch \in DOMAIN history)
        => Succeeded("commit")

(***************************************************************************)
(* C3.  Entry guard, as claimed: a run that begins on a branch starting    *)
(* with branchPrefix + "/" issues nothing but the guard's read and returns *)
(* success.  Refuted: when the guard's read of the branch fails, the run   *)
(* goes on to analysis.                                                    *)
(***************************************************************************)
BeganOnPromptBranch == HasPrefix(start.head, getBranchPrefix \o "/")

BranchesCreated ==
    Cardinality({k \in 1..Len(ops) : ops[k].cmd = "checkout -b" /\ ops[k].ok})

NestedStopped ==
    /\ \A k \in 1..Len(ops) : ops[k].depth > 1 => ops[k].step = "guard"
    /\ Depth <= 2
    /\ Depth = 2 => Top.pc \in {"guard", "done"}
    /\ BranchesCreated <= 1

NestedReadsSucceed ==
    \A k \in 1..Len(ops) : (ops[k].depth > 1 /\ ops[k].step = "guard") => ops[k].ok

NoPathMatches ==
    LET pats == getPromptPatterns
    IN \A j \in 1..Len(commitDB[FullSha].files) :
           \A i \in 1..Len(pats) :
               ~HasPrefix(commitDB[FullSha].files[j], pats[i])

NoMutation ==
    /\ Snapshot = start
    /\ \A k \in 1..Len(ops) : ops[k].cmd \notin MutatingCmds

C6_AnalysisError ==
    /\ \A k \in 1..Len(ops) :
          (ops[k].depth = 1 /\ ops[k].step \in AnalysisSteps /\ ~ops[k].ok) =>
              /\ k = Len(ops)
              /\ RunEnded /\ Outer.pc = "error" /\ Outer.result = "analysis"
              /\ DOMAIN history = DOMAIN start.history
              /\ NoMutation
    /\ (RunEnded /\ ~Resolves(Outer.commitSHA)) =>
          \/ Outer.result = "analysis" /\ NoMutation
          \/ Outer.result = "nil" /\ Len(ops) = 1 /\ ops[1].ok

C6_Witness ==
    RunEnded /\ ~Resolves(Outer.commitSHA) /\ Outer.result = "analysis" /\ Failed("log")

(***************************************************************************)
(* C7.  Content of the extraction commit: the paths committed on the       *)
(* extraction branch are exactly the prompt files of the commit.           *)
(* The code does not keep it: a failed unstage is ignored and the path is  *)
(* committed with the prompt files.                                        *)
(***************************************************************************)
ExtractionCommit == commitDB[NewSha(1)]

C7_ExtractionCommitExact ==
    Succeeded("commit") => Range(ExtractionCommit.files) = Range(Outer.info.PromptFiles)

(***************************************************************************)
(* C8.  After a successful extraction of a mixed commit every other file   *)
(* is present in the working tree and was not committed by the tool.       *)
(* The code does not keep it, for the reason of C7.                        *)
(***************************************************************************)
C8_OtherFilesKept ==
    (EndedSuccessfully /\ Succeeded("commit") /\ Outer.info.OtherFiles # <<>>) =>
        /\ Range(Outer.info.OtherFiles) \subseteq worktree
        /\ Range(Outer.info.OtherFiles) \cap Range(ExtractionCommit.files) = {}

(***************************************************************************)
(* C9.  The message of the extraction commit is "[" + commitPrefix + "] "  *)
(* + the original message, followed by a blank line and "Extracted from    *)
(* <sourceBranch> (<shortSha>)" exactly when the commit has other files.   *)
(***************************************************************************)
ExpectedMessage ==
    LET first == "[" \o getCommitPrefix \o "] " \o TrimSpace(commitDB[FullSha].msg)
        suffix == "\n\nExtracted from " \o start.head \o " ("
                  \o SubSeq(Outer.commitSHA, 1, 7) \o ")"
    IN IF Outer.info.OtherFiles # <<>> THEN first \o suffix ELSE first

C9_CommitMessage == Succeeded("commit") => ExtractionCommit.msg = ExpectedMessage

\* A prompt-only commit extracted: no suffix.
C9_Witness ==
    /\ Succeeded("commit") /\ Outer.info.OtherFiles = <<>>
    /\ ExtractionCommit.msg = "[prompt] fix"

(***************************************************************************)
(* C10.  A failed push is not fatal: the run does not clean up, the        *)
(* extraction branch keeps its commit, the run goes on to switch back to   *)
(* the source branch and, when that switch succeeds, returns success.      *)
(***************************************************************************)
C10_PushNonFatal ==
    Failed("push") =>
        /\ \A k \in 1..Len(ops) : ops[k].depth = 1 => ops[k].cmd \notin CleanupCmds
        /\ Outer.promptBranch \in DOMAIN history
        /\ NewSha(1) \in Range(history[Outer.promptBranch])
        /\ Outer.promptBranch \notin remote
        /\ Outer.pc \in {"checkout_f", "pr_url", "done", "error"}
        /\ Outer.pc = "error" => (Outer.result = "restore" /\ Failed("checkout -f"))
        /\ Succeeded("checkout -f") =>
              /\ head = Outer.info.SourceBranch
              /\ RunEnded => Outer.result = "nil"

C10_Witness == Failed("push") /\ EndedSuccessfully /\ head = start.head


(***************************************************************************)
(* C11.  RestoreError is always surfaced: when a run that has switched to  *)
(* the extraction branch ends and its switch back to the source branch     *)
(* failed, on the path after the commit (checkout -f) or on the cleanup    *)
(* path (checkout), the error it returns is the failed return to the       *)
(* original branch.                                                        *)
(* The code does not keep it: cleanup drops the error of its switch back   *)
(* and the run returns the cherry-pick or commit error.                    *)
(***************************************************************************)
SwitchBackFailed == Failed("checkout -f") \/ Failed("checkout")

C11_RestoreSurfaced ==
    (RunEnded /\ Succeeded("checkout -b") /\ SwitchBackFailed)
        => (Outer.pc = "error" /\ Outer.result = "restore")



(***************************************************************************)
(* C12.  Classification is an exact, order-preserving partition: once the  *)
(* changed paths are read, every path of the list that is not blank is in  *)
(* exactly one of PromptFiles and OtherFiles, these hold nothing else, and *)
(* each lists its paths in the order of the input.                         *)
(* The code does not keep it: it records each path trimmed of surrounding  *)
(* whitespace, so a path that begins or ends with a space is in neither    *)
(* list.                                                                   *)
(***************************************************************************)
Analysed == Succeeded("diff-tree")

\* The changed-path list after blank entries are discarded.
ChangedPaths == SelectSeq(commitDB[FullSha].files, LAMBDA p : TrimSpace(p) # "")

C12_ExactPartition ==
    Analysed =>
        LET P == Outer.info.PromptFiles
            O == Outer.info.OtherFiles
        IN /\ Range(P) \cup Range(O) = Range(ChangedPaths)
           /\ Range(P) \cap Range(O) = {}
           /\ P = SelectSeq(ChangedPaths, LAMBDA p : p \in Range(P))
           /\ O = SelectSeq(ChangedPaths, LAMBDA p : p \in Range(O))

(***************************************************************************)
(* C13.  Once the changed paths are read, a non-blank path of the list is  *)
(* in PromptFiles if and only if it starts with one of the effective       *)
(* patterns, and in OtherFiles if and only if it starts with none.         *)
(* The code does not keep it: the test is made on the trimmed path, and    *)
(* the trimmed path is what is recorded.                                   *)
(***************************************************************************)
StartsWithPattern(p) ==
    \E i \in 1..Len(getPromptPatterns) : HasPrefix(p, getPromptPatterns[i])

C13_PrefixMatch ==
    Analysed =>
        \A k \in 1..Len(ChangedPaths) :
            LET p == ChangedPaths[k] IN
            /\ p \in Range(Outer.info.PromptFiles) <=> StartsWithPattern(p)
            /\ p \in Range(Outer.info.OtherFiles) <=> ~StartsWithPattern(p)



(***************************************************************************)
(* C14.  Configuration override.  What it means for a run to use the       *)
(* commit prefix cp, the branch prefix bp, the base branch bb and the      *)
(* patterns pats: the four getters return them; a run that begins on a     *)
(* branch under bp and reads it is stopped by the guard; the extraction    *)
(* branch is named bp/<short sha> and starts from bb; the commit message   *)
(* begins "[cp] "; the prompt files are the changed paths that start with  *)
(* one of pats.                                                            *)
(***************************************************************************)
StartsWithOneOf(p, pats) == \E i \in 1..Len(pats) : HasPrefix(p, pats[i])

ConfigUsed(cp, bp, bb, pats) ==
    /\ getCommitPrefix = cp
    /\ getBranchPrefix = bp
    /\ getBaseBranch = bb
    /\ getPromptPatterns = pats
    /\ (HasPrefix(start.head, bp \o "/") /\ ops # <<>> /\ ops[1].ok)
          => (Len(ops) = 1 /\ Outer.result = "nil")
    /\ \A k \in 1..Len(ops) :
          /\ (ops[k].depth = 1 /\ ops[k].cmd = "checkout -b")
                => ops[k].arg = bp \o "/" \o SubSeq(Outer.info.SHA, 1, ShortLen)
          /\ (ops[k].depth = 1 /\ ops[k].cmd = "commit")
                => HasPrefix(ops[k].arg, "[" \o cp \o "] ")
    /\ (Depth = 1 /\ Outer.pc = "cherry_pick")
          => (head = Outer.promptBranch /\ history[head] = start.history[bb])
    /\ Analysed
          => Outer.info.PromptFiles
               = SelectSeq(commitDB[FullSha].files, LAMBDA p : StartsWithOneOf(p, pats))

\* The entries of a comma-separated value, trimmed, the blank ones dropped.
ConfiguredPatterns(val) ==
    LET parts == Split(val, ",")
        trimmed == [i \in 1..Len(parts) |-> TrimSpace(parts[i])]
    IN SelectSeq(trimmed, LAMBDA x : x # "")

(***************************************************************************)
(* C14, as claimed: a key set to a non-empty value gives that value, a key *)
(* absent or set to the empty value gives the default, and the run uses    *)
(* the values so obtained.  Refuted: a value made of whitespace, and a     *)
(* pattern list with blank entries only, are non-empty and give the        *)
(* default.                                                                *)
(***************************************************************************)
NonEmptyValue(key, default) ==
    IF config[key].set /\ config[key].val # "" THEN config[key].val ELSE default

NonEmptyPatterns ==
    IF config["promptPatterns"].set /\ config["promptPatterns"].val # ""
    THEN ConfiguredPatterns(config["promptPatterns"].val)
    ELSE defaultPromptPatterns

C14_NonEmptyOverrides ==
    ConfigUsed(NonEmptyValue("commitPrefix", defaultCommitPrefix),
               NonEmptyValue("branchPrefix", defaultBranchPrefix),
               NonEmptyValue("baseBranch", defaultBaseBranch),
               NonEmptyPatterns)

(***************************************************************************)
(* C14, amended.  A key set to a value that is not blank gives that value  *)
(* trimmed of surrounding whitespace (for the patterns: its non-blank      *)
(* entries, trimmed, when there is one); a key absent, or set to an empty  *)
(* or blank value, gives the default; and the run uses the values so       *)
(* obtained: in the guard and the branch name, in the commit message, as   *)
(* the base of the new branch, and in classification, where no default     *)
(* pattern is used once patterns are configured.                           *)
(***************************************************************************)
NonBlankValue(key, default) ==
    IF config[key].set /\ TrimSpace(config[key].val) # ""
    THEN TrimSpace(config[key].val)
    ELSE default

NonBlankPatterns ==
    LET configured == ConfiguredPatterns(config["promptPatterns"].val)
    IN IF config["promptPatterns"].set /\ configured # <<>>
       THEN configured
       ELSE defaultPromptPatterns

C14_NonBlankOverrides ==
    ConfigUsed(NonBlankValue("commitPrefix", defaultCommitPrefix),
               NonBlankValue("branchPrefix", defaultBranchPrefix),
               NonBlankValue("baseBranch", defaultBaseBranch),
               NonBlankPatterns)

\* A run under the custom configuration, begun on the default base branch,
\* has extracted c/x to cb/<short sha> started from dev, with prompts/a left
\* among the other files.
C14_Witness ==
    /\ config["branchPrefix"] = Val("cb") /\ start.head = Main
    /\ EndedSuccessfully /\ Succeeded("commit")
    /\ Outer.promptBranch = "cb/" \o SubSeq(FullSha, 1, ShortLen)
    /\ history[Outer.promptBranch] = <<NewSha(1)>>
    /\ HasPrefix(commitDB[NewSha(1)].msg, "[cp] ")
    /\ Outer.info.PromptFiles = <<PathC1>>
    /\ PathP1 \in Range(Outer.info.OtherFiles)



(***************************************************************************)
(* C15.  Exit behaviour: a run that has ended returned an error exactly    *)
(* when a read of analysis, the branch creation, the cherry-pick, the      *)
(* commit or the final return to the source branch failed, and returned    *)
(* success otherwise.                                                      *)
(* The code does not keep it: for a commit identifier shorter than seven   *)
(* characters that git resolves, no command fails and the run ends in a    *)
(* panic at info.SHA[:7].                                                  *)
(***************************************************************************)
FatalCmds == {"checkout -b", "cherry-pick", "commit", "checkout -f"}

FatalFailure ==
    \E k \in 1..Len(ops) :
        /\ ops[k].depth = 1 /\ ~ops[k].ok
        /\ ops[k].step \in AnalysisSteps \/ ops[k].cmd \in FatalCmds

C15_ExitBehaviour ==
    RunEnded =>
        /\ FatalFailure => Outer.pc = "error"
        /\ ~FatalFailure => (Outer.pc = "done" /\ Outer.result = "nil")



(***************************************************************************)
(* C16.  With prrompt.branchPrefix unset, the extraction branch is named   *)
(* prompt-update/<short sha>, and the runs the entry guard stops are those *)
(* begun on a branch under prompt-update/.                                 *)
(* The code does not keep it: its default prefix is skill-update.          *)
(***************************************************************************)
StoppedByGuard ==
    Len(ops) = 1 /\ ops[1].ok /\ Outer.pc = "done" /\ Outer.result = "nil"

C16_DocumentedDefault ==
    ~config["branchPrefix"].set =>
        /\ \A k \in 1..Len(ops) :
              (ops[k].depth = 1 /\ ops[k].cmd = "checkout -b")
                  => ops[k].arg = documentedBranchPrefix \o "/"
                                  \o SubSeq(Outer.info.SHA, 1, ShortLen)
        /\ StoppedByGuard => HasPrefix(start.head, documentedBranchPrefix \o "/")



(***************************************************************************)
(* C17.  In every invocation, from the CommitInfo analysis returns to the  *)
(* end of the run, IsMixed is true if and only if OtherFiles is not empty. *)
(***************************************************************************)
C17_IsMixedDerived ==
    \A d \in 1..Depth :
        stack[d].info.IsMixed <=> (Len(stack[d].info.OtherFiles) > 0)

\* Both cases at a late point of a run: a mixed commit whose extraction was
\* pushed, and a commit of prompt files only that was committed.
C17_Witness ==
    \/ /\ Outer.info.IsMixed /\ Outer.info.OtherFiles # <<>>
       /\ Outer.info.PromptFiles # <<>> /\ Succeeded("push") /\ EndedSuccessfully
    \/ /\ ~Outer.info.IsMixed /\ Outer.info.OtherFiles = <<>>
       /\ Outer.info.PromptFiles # <<>> /\ Succeeded("push") /\ EndedSuccessfully

(***************************************************************************)
(* C18.  Step ordering: the commands of the protocol are issued in the     *)
(* order create-and-switch, cherry-pick, unstage each other file, commit,  *)
(* push, switch back, and each only after the previous step succeeded: the *)
(* cherry-pick after a successful branch creation, the unstaging after a   *)
(* successful cherry-pick, the commit after a successful cherry-pick and   *)
(* the successful unstaging of every other file, the push after a          *)
(* successful commit, the switch back after the push was issued.           *)
(* The code does not keep it: the commit is issued after a failed          *)
(* unstaging.                                                              *)
(***************************************************************************)
ProtocolOrder ==
    <<"checkout -b", "cherry-pick", "restore --staged", "commit", "push", "checkout -f">>

Rank(cmd) == CHOOSE r \in 1..Len(ProtocolOrder) : ProtocolOrder[r] = cmd

\* The positions in ops of the protocol commands of the outermost run.
ProtocolOps ==
    {k \in 1..Len(ops) : ops[k].depth = 1 /\ ops[k].cmd \in Range(ProtocolOrder)}

\* Before position k the outermost run issued cmd, and it succeeded.
SucceededBefore(cmd, k) ==
    \E j \in ProtocolOps : j < k /\ ops[j].cmd = cmd /\ ops[j].ok

\* Before position k every other file was unstaged, successfully when
\* mustSucceed.
UnstagedBefore(k, mustSucceed) ==
    \A i \in 1..Len(Outer.info.OtherFiles) :
        \E j \in ProtocolOps :
            /\ j < k /\ ops[j].cmd = "restore --staged"
            /\ ops[j].arg = Outer.info.OtherFiles[i]
            /\ mustSucceed => ops[j].ok

StepOrder(mustSucceed) ==
    /\ \A j, k \in ProtocolOps :
          j < k => /\ Rank(ops[j].cmd) <= Rank(ops[k].cmd)
                   /\ Rank(ops[j].cmd) = Rank(ops[k].cmd)
                         => ops[k].cmd = "restore --staged"
    /\ \A k \in ProtocolOps :
          /\ ops[k].cmd = "cherry-pick" => SucceededBefore("checkout -b", k)
          /\ ops[k].cmd = "restore --staged" => SucceededBefore("cherry-pick", k)
          /\ ops[k].cmd = "commit"
                => (SucceededBefore("cherry-pick", k) /\ UnstagedBefore(k, mustSucceed))
          /\ ops[k].cmd = "push" => SucceededBefore("commit", k)
          /\ ops[k].cmd = "checkout -f"
                => \E j \in ProtocolOps : j < k /\ ops[j].cmd = "push"

C18_StepOrder == StepOrder(TRUE)

(***************************************************************************)
(* C19.  When the creation of the extraction branch fails, that command is *)
(* the last the run issues: the run has returned the branch-creation       *)
(* error, no cleanup command and no later step of the protocol was issued, *)
(* and the active branch, the branches and the rest of the repository are  *)
(* as they were.                                                           *)
(***************************************************************************)
C19_CreateFailureImmediate ==
    Failed("checkout -b") =>
        /\ ops[Len(ops)].cmd = "checkout -b"
        /\ \A k \in 1..Len(ops) :
              ops[k].cmd \notin (MutatingCmds \ {"checkout -b"})
        /\ RunEnded /\ Outer.pc = "error" /\ Outer.result = "create_branch"
        /\ head = start.head
        /\ DOMAIN history = DOMAIN start.history
        /\ Snapshot = start

\* The creation was refused because the branch of an earlier extraction
\* of the same commit exists.
C19_Witness ==
    /\ Failed("checkout -b") /\ RunEnded
    /\ Outer.promptBranch \in DOMAIN start.history

(***************************************************************************)
(* C20.  Aborting is best-effort and error-transparent: in the outermost   *)
(* run a cleanup command is issued only in the sequence abort cherry-pick, *)
(* switch back, force-delete that follows a failed cherry-pick or a failed *)
(* commit; after such a failure the three are issued in that order         *)
(* whatever their outcomes, and the run then returns the cherry-pick       *)
(* error after a cherry-pick failure and the commit error after a commit   *)
(* failure.                                                                *)
(***************************************************************************)
CleanupOrder == <<"cherry-pick --abort", "checkout", "branch -D">>

CleanupPcs == <<"abort", "cleanup_checkout", "cleanup_delete", "error">>

\* The positions in ops of the failures of the outermost run that start
\* cleanup.
AbortingFailures ==
    {k \in 1..Len(ops) :
        ops[k].depth = 1 /\ ~ops[k].ok /\ ops[k].cmd \in {"cherry-pick", "commit"}}

C20_CleanupBestEffort ==
    /\ \A k \in 1..Len(ops) :
          (ops[k].depth = 1 /\ ops[k].cmd \in Range(CleanupOrder))
              => \E f \in AbortingFailures :
                    k - f \in 1..3 /\ ops[k].cmd = CleanupOrder[k - f]
    /\ \A f \in AbortingFailures :
          LET n == Len(ops) - f IN
          /\ n \in 0..3
          /\ \A i \in 1..n : ops[f + i].depth = 1 /\ ops[f + i].cmd = CleanupOrder[i]
          /\ Depth = 1 /\ Outer.pc = CleanupPcs[n + 1]
          /\ n = 3 => Outer.result = IF ops[f].cmd = "cherry-pick"
                                     THEN "cherry_pick" ELSE "commit"

\* After a failed commit all three cleanup commands failed, and the run
\* returned the commit error.
C20_Witness ==
    /\ Failed("commit") /\ RunEnded /\ Outer.result = "commit"
    /\ Failed("cherry-pick --abort") /\ Failed("checkout") /\ Failed("branch -D")
    /\ ~Succeeded("cherry-pick --abort") /\ ~Succeeded("checkout") /\ ~Succeeded("branch -D")



(***************************************************************************)
(* C21.  Compensation restores the pre-extraction state: when a run ends   *)
(* after a failed cherry-pick or commit and all three cleanup commands     *)
(* succeeded, the active branch, the branches with their commits and the   *)
(* set of commits are those the run began with, and nothing was pushed.    *)
(***************************************************************************)
CleanupSucceeded ==
    /\ Succeeded("cherry-pick --abort")
    /\ Succeeded("checkout")
    /\ Succeeded("branch -D")

C21_CompensationRestores ==
    (RunEnded /\ AbortingFailures # {} /\ CleanupSucceeded) =>
        /\ head = start.head
        /\ DOMAIN history = DOMAIN start.history
        /\ history = start.history
        /\ DOMAIN commitDB = UNION {Range(start.history[b]) : b \in DOMAIN start.history}
        /\ remote = start.remote
        /\ \A k \in 1..Len(ops) : ops[k].cmd # "push"

\* A run whose commit failed, after a branch was created, was compensated.
C21_Witness ==
    /\ RunEnded /\ Failed("commit") /\ CleanupSucceeded
    /\ Succeeded("checkout -b") /\ Outer.promptBranch \notin DOMAIN history



(***************************************************************************)
(* C22.  Unstage-only policy: the outermost run issues no command that     *)
(* restores the working-tree content of a path; its unstage commands       *)
(* are for other files, at most one for each, and exactly one for each     *)
(* once the commit is issued; for a commit that is not mixed it issues no  *)
(* unstage command.                                                        *)
(* The earlier variants of the program do not keep it: they run git        *)
(* restore on every other file after unstaging it.                         *)
(***************************************************************************)
\* The positions in ops at which the outermost run issued cmd for path.
OpsFor(cmd, path) ==
    {k \in 1..Len(ops) : ops[k].depth = 1 /\ ops[k].cmd = cmd /\ ops[k].arg = path}

CommitIssued == \E k \in 1..Len(ops) : ops[k].depth = 1 /\ ops[k].cmd = "commit"

C22_UnstageOnly ==
    /\ \A k \in 1..Len(ops) : ops[k].depth = 1 => ops[k].cmd # "restore"
    /\ \A k \in 1..Len(ops) :
          (ops[k].depth = 1 /\ ops[k].cmd = "restore --staged")
              => /\ Outer.info.IsMixed
                 /\ ops[k].arg \in Range(Outer.info.OtherFiles)
                 /\ Cardinality(OpsFor("restore --staged", ops[k].arg)) = 1
    /\ CommitIssued
          => \A i \in 1..Len(Outer.info.OtherFiles) :
                Cardinality(OpsFor("restore --staged", Outer.info.OtherFiles[i])) = 1



(***************************************************************************)
(* C23.  The extraction branch name is branchPrefix, "/" and the first     *)
(* seven characters of the commit identifier passed to the tool, and the   *)
(* outermost run uses that one name when it creates the branch, pushes,    *)
(* deletes the branch in cleanup and generates the PR URL.                 *)
(***************************************************************************)
BranchCmds == {"checkout -b", "push", "branch -D", "generatePRURL"}

ExpectedBranch ==
    getBranchPrefix \o "/" \o SubSeq(Outer.commitSHA, 1, ShortLen)

C23_BranchName ==
    /\ Outer.promptBranch # "" =>
          (Len(Outer.commitSHA) >= ShortLen /\ Outer.promptBranch = ExpectedBranch)
    /\ \A k \in 1..Len(ops) :
          (ops[k].depth = 1 /\ ops[k].cmd \in BranchCmds)
              => (Len(Outer.commitSHA) >= ShortLen /\ ops[k].arg = ExpectedBranch)

\* A run that created, pushed and announced the branch, and one that
\* created and deleted it.
C23_Witness ==
    \/ /\ Succeeded("checkout -b") /\ Succeeded("push") /\ Succeeded("generatePRURL")
       /\ Len(Outer.commitSHA) > ShortLen /\ EndedSuccessfully
    \/ /\ Succeeded("checkout -b") /\ Succeeded("branch -D")
       /\ Len(Outer.commitSHA) > ShortLen /\ EndedAborted



(***************************************************************************)
(* C24.  Pattern parsing: the effective pattern list is the configured     *)
(* value split on commas, each entry trimmed, the empty entries dropped,   *)
(* the order kept, and the default list when the value is absent, empty or *)
(* leaves no entry.  So the list is never empty, holds no empty or blank   *)
(* pattern and no pattern with surrounding whitespace, and every prompt    *)
(* file found by analysis starts with a pattern that is not empty.         *)
(***************************************************************************)
C24_PatternParsing ==
    /\ getPromptPatterns = NonBlankPatterns
    /\ Len(getPromptPatterns) > 0
    /\ \A i \in 1..Len(getPromptPatterns) :
          /\ TrimSpace(getPromptPatterns[i]) # ""
          /\ TrimSpace(getPromptPatterns[i]) = getPromptPatterns[i]
    /\ Analysed =>
          /\ \A j \in 1..Len(Outer.info.PromptFiles) :
                \E i \in 1..Len(getPromptPatterns) :
                    /\ getPromptPatterns[i] # ""
                    /\ HasPrefix(Outer.info.PromptFiles[j], getPromptPatterns[i])
          /\ \A j \in 1..Len(Outer.info.OtherFiles) :
                ~StartsWithPattern(Outer.info.OtherFiles[j])

\* A value with an empty entry in the middle gives its two patterns in the
\* order written, and a path under neither is not a prompt file.
C24_Witness ==
    /\ config["promptPatterns"] = Val("q/,, c/")
    /\ getPromptPatterns = <<"q/", "c/">>
    /\ Analysed
    /\ Outer.info.PromptFiles = <<PathC1>>
    /\ Outer.info.OtherFiles = <<PathP1>>



(***************************************************************************)
(* C25.  For every commit identifier for which analysis succeeds and finds *)
(* a prompt file, identifiers shorter than seven characters that git       *)
(* resolves included, the run computes a branch name and issues the branch *)
(* creation, and never ends in a crash.                                    *)
(* The code does not keep it: info.SHA[:7] panics on the shorter           *)
(* identifiers.                                                            *)
(***************************************************************************)
PastNaming ==
    /\ Analysed
    /\ Outer.info.PromptFiles # <<>>
    /\ Outer.pc \notin {"decide", "name"}

C25_NoCrash ==
    PastNaming =>
        /\ Outer.pc # "panic"
        /\ Outer.promptBranch # ""
        /\ Outer.pc # "checkout_b"
              => \E k \in 1..Len(ops) : ops[k].depth = 1 /\ ops[k].cmd = "checkout -b"
        /\ RunEnded => Outer.pc \in {"done", "error"}



(***************************************************************************)
(* C26.  A run never deletes a branch that existed before it began: every  *)
(* branch of the start is still there; a force-delete is issued only for a *)
(* branch the same invocation created before; and when the outermost run   *)
(* asks to create a branch that existed at the start, the creation fails   *)
(* and no cleanup command follows.                                         *)
(***************************************************************************)
C26_NoForeignDelete ==
    /\ \A b \in DOMAIN start.history : b \in DOMAIN history
    /\ \A k \in 1..Len(ops) :
          ops[k].cmd = "branch -D"
              => \E j \in 1..(k - 1) :
                    /\ ops[j].cmd = "checkout -b" /\ ops[j].ok
                    /\ ops[j].depth = ops[k].depth /\ ops[j].arg = ops[k].arg
    /\ \A k \in 1..Len(ops) :
          (ops[k].depth = 1 /\ ops[k].cmd = "checkout -b"
           /\ ops[k].arg \in DOMAIN start.history)
              => /\ ~ops[k].ok
                 /\ \A j \in 1..Len(ops) : ops[j].cmd \notin CleanupCmds

\* The branch of an earlier extraction was in the way and is untouched.
C26_Witness ==
    /\ RunEnded /\ Outer.result = "create_branch"
    /\ Outer.promptBranch \in DOMAIN start.history
    /\ history[Outer.promptBranch] = <<PriorSha>>
    /\ \A j \in 1..Len(ops) : ops[j].cmd \notin CleanupCmds

(***************************************************************************)
(* C27.  A second run from the source branch on a commit whose extraction  *)
(* branch exists, once its analysis has found the prompt files, returns    *)
(* the branch-creation error and leaves the repository as it found it: the *)
(* existing branch and its commit intact, the source branch active,        *)
(* nothing committed and nothing pushed.                                   *)
(***************************************************************************)
SecondRun ==
    /\ Len(Outer.commitSHA) >= ShortLen
    /\ ExpectedBranch \in DOMAIN start.history

C27_SecondRunRefused ==
    (SecondRun /\ RunEnded /\ Analysed /\ Outer.info.PromptFiles # <<>>) =>
        /\ Outer.pc = "error" /\ Outer.result = "create_branch"
        /\ history = start.history
        /\ history[ExpectedBranch] = <<PriorSha>>
        /\ head = start.head /\ head = Outer.info.SourceBranch
        /\ Snapshot = start
        /\ NewSha(1) \notin DOMAIN commitDB
        /\ \A k \in 1..Len(ops) : ops[k].cmd \notin {"commit", "push"}

\* A second run under the custom configuration, from the feature branch.
C27_Witness ==
    /\ SecondRun /\ RunEnded /\ Analysed
    /\ start.head = Feature /\ config["branchPrefix"] = Val("cb")
    /\ Outer.result = "create_branch" /\ ExpectedBranch \in DOMAIN history

(***************************************************************************)
(* C28.  A failed unstage is ignored: after it the run issues the unstage  *)
(* of the next other file, or the commit when there is none; it does not   *)
(* enter cleanup or return an error for it; and the path is still staged   *)
(* when the commit is issued, so a successful commit contains it.          *)
(***************************************************************************)
\* The positions in ops of the failed unstage commands of the outermost run.
FailedUnstages ==
    {k \in 1..Len(ops) :
        ops[k].depth = 1 /\ ops[k].cmd = "restore --staged" /\ ~ops[k].ok}

\* The place of a path in info.OtherFiles.
OtherIndex(p) ==
    CHOOSE i \in 1..Len(Outer.info.OtherFiles) : Outer.info.OtherFiles[i] = p

\* The cherry-pick staged the files of the commit: the base did not hold it.
PickStaged == FullSha \notin Range(start.history[getBaseBranch])

C28_UnstageFailureIgnored ==
    \A k \in FailedUnstages :
        LET i == OtherIndex(ops[k].arg)
            last == i = Len(Outer.info.OtherFiles)
        IN /\ k = Len(ops) =>
                 /\ Depth = 1
                 /\ Outer.pc = IF last THEN "commit" ELSE "unstage"
                 /\ ~last => Outer.i = i + 1
           /\ k < Len(ops) =>
                 /\ ops[k + 1].depth = 1
                 /\ ops[k + 1].cmd = IF last THEN "commit" ELSE "restore --staged"
                 /\ ~last => ops[k + 1].arg = Outer.info.OtherFiles[i + 1]
           /\ (Depth = 1 /\ Outer.pc = "commit" /\ PickStaged)
                 => ops[k].arg \in Range(index)
           /\ (Succeeded("commit") /\ PickStaged)
                 => ops[k].arg \in Range(ExtractionCommit.files)
           /\ (RunEnded /\ Outer.pc = "error") => FatalFailure

\* The unstage of the first of two other files failed, the second
\* succeeded, and the commit holds the first with the prompt file.
C28_Witness ==
    /\ Len(Outer.info.OtherFiles) = 2
    /\ FailedUnstages # {}
    /\ \A k \in FailedUnstages : ops[k].arg = Outer.info.OtherFiles[1]
    /\ Succeeded("restore --staged") /\ Succeeded("commit")
    /\ Range(ExtractionCommit.files) = {Outer.info.OtherFiles[1], PathP1}
    /\ EndedSuccessfully

(***************************************************************************)
(* C29.  Termination: a run issues a bounded number of git commands, ten   *)
(* and one for each other file at most, none of them twice, and the state  *)
(* in which it stops is Done or an error return.                           *)
(* The code does not keep it: a run for a resolvable identifier shorter    *)
(* than seven characters stops in a panic, which is neither.               *)
(***************************************************************************)
\* The git commands of the outermost run outside the loop over
\* info.OtherFiles: the guard's read, three reads of analysis, branch
\* creation, cherry-pick, commit, and then either push, switch back and
\* the read of generatePRURL or the three commands of cleanup.
FixedCommands == 1 + Cardinality(AnalysisSteps) + 3 + Len(CleanupOrder)

OuterOps == {k \in 1..Len(ops) : ops[k].depth = 1}

C29_Termination ==
    /\ Cardinality(OuterOps) <= FixedCommands + Len(Outer.info.OtherFiles)
    /\ \A j, k \in OuterOps :
          j # k => <<ops[j].cmd, ops[j].arg, ops[j].step>>
                      # <<ops[k].cmd, ops[k].arg, ops[k].step>>
    /\ Terminal(Outer) => Outer.pc \in {"done", "error"}

(***************************************************************************)
(* That every run stops: each step lowers a measure that is a natural      *)
(* number.                                                                 *)
(***************************************************************************)
\* Most paths a commit of the run may hold: those of the commit under
\* analysis, of which an extraction commit holds a part.
MaxFiles == Len(commitDB[FullSha].files)

\* The steps an invocation at pc may still take, nested invocations apart.
StepsLeft(f) ==
    CASE f.pc \in {"done", "error", "panic"} -> 1
      [] f.pc = "cleanup_delete" -> 2
      [] f.pc = "cleanup_checkout" -> 3
      [] f.pc = "abort" -> 4
      [] f.pc = "pr_url" -> 2
      [] f.pc = "checkout_f" -> 3
      [] f.pc = "push" -> 4
      [] f.pc = "commit" -> 5
      [] f.pc = "unstage" -> 6 + (Len(f.info.OtherFiles) - f.i)
      [] f.pc = "cherry_pick" -> 7 + MaxFiles
      [] f.pc = "checkout_b" -> 8 + MaxFiles
      [] f.pc = "name" -> 9 + MaxFiles
      [] f.pc = "decide" -> 10 + MaxFiles
      [] f.pc = "difftree" -> 11 + MaxFiles
      [] f.pc = "revparse" -> 12 + MaxFiles
      [] f.pc = "log" -> 13 + MaxFiles
      [] f.pc = "guard" -> 14 + MaxFiles

RECURSIVE SumSteps(_)
SumSteps(d) == IF d = 0 THEN 0 ELSE StepsLeft(stack[d]) + SumSteps(d - 1)

\* The invocations the running one may still start through its commit.
NestedLeft ==
    IF Top.pc \in {"pr_url", "checkout_f", "push", "abort", "cleanup_checkout",
                   "cleanup_delete", "done", "error", "panic"}
    THEN 0
    ELSE MaxDepth - Depth

Measure == SumSteps(Depth) + NestedLeft * (15 + MaxFiles)

MeasureDecreases == [][Measure' < Measure]_vars

====
